---- MODULE Spec2Model ----
(***************************************************************************)
(* ComplianceEngine of app.py: the pre-trade locate gatekeeper.            *)
(*                                                                         *)
(* State: st.session_state.inventory (a table of lots), .restricted_list   *)
(* and .audit_ledger.  One operation, process_order, modelled statement by *)
(* statement with a program counter per caller, so that the states inside  *)
(* the allocation loop are states of the model.                            *)
(*                                                                         *)
(* Spec     : one caller; every call runs to completion before the next.   *)
(* SpecConc : NProcs callers whose statements interleave; the code takes   *)
(*            no lock anywhere in process_order.                           *)
(*                                                                         *)
(* Not modelled: the "Time" field of a ledger record (datetime.now(),      *)
(* line 170), which is written once and never read by the engine, and the  *)
(* Streamlit pages, which only call process_order and render its result.   *)
(***************************************************************************)
EXTENDS Integers, Sequences, FiniteSets, TLC

\* ------------------------------------------------------------- bounds
\* Largest quantity a lot starts with.
MaxLotQty == 2
\* Calls are accepted while the ledger is shorter than this.
MaxLedger == 2
\* Number of concurrent callers in SpecConc.
NProcs == 2

\* Largest quantity an order asks for: one more than any single lot holds.
MaxQty == MaxLotQty + 1

Procs == 1..NProcs

\* ------------------------------------------------------------- data
\* The rows of the inventory table, in row order: ticker, lender, tax id,
\* region.  XYZ has two lenders, so that the allocation walk has more than
\* one lot to visit; VOLATILE is restricted and has one lot.
LotRows ==
  << [Ticker |-> "XYZ",      Lender |-> "State Street", TaxID |-> "99-123456", Region |-> "US"],
     [Ticker |-> "VOLATILE", Lender |-> "State Street", TaxID |-> "99-123456", Region |-> "US"],
     [Ticker |-> "XYZ",      Lender |-> "CalPERS",      TaxID |-> "88-654321", Region |-> "US"] >>

\* The inventory tables the engine may be constructed over: the rows above,
\* each with a starting quantity of 0..MaxLotQty.
SeedInventories ==
  { [i \in 1..Len(LotRows) |->
        [Ticker |-> LotRows[i].Ticker, Lender |-> LotRows[i].Lender,
         Quantity |-> q[i], TaxID |-> LotRows[i].TaxID, Region |-> LotRows[i].Region]]
    : q \in [1..Len(LotRows) -> 0..MaxLotQty] }

\* st.session_state.restricted_list as constructed.
SeedRestricted == << "VOLATILE", "FAIL_CORP" >>

\* Order inputs.  ZZZ is in no list and has no lot; FAIL_CORP is restricted
\* and has no lot.
Tickers == { "XYZ", "VOLATILE", "FAIL_CORP", "ZZZ" }
Regions == { "US", "JP" }
Quantities == 1..MaxQty
\* Values uuid.uuid4() may return.
UUIDs == { "U1", "U2" }

VARIABLES
  inventory,        \* st.session_state.inventory: sequence of lot records
  restricted_list,  \* st.session_state.restricted_list
  audit_ledger,     \* st.session_state.audit_ledger
  pc,               \* pc[p]: position of caller p in process_order
  args,             \* args[p]: ticker, quantity, region, is_pre_borrow
  locals,           \* locals[p]: available_rows, total_available,
                    \*   remaining_needed, sources_used, pos, take, cur
  result,           \* result[p]: the dict process_order returned
  inv0,             \* history: inventory when caller p's call began
  ledger0,          \* history: audit_ledger when caller p's call began
  seed,             \* history: inventory at construction
  passes            \* history: number of PASS results returned so far

vars == << inventory, restricted_list, audit_ledger, pc, args, locals,
           result, inv0, ledger0, seed, passes >>

\* ------------------------------------------------------------- helpers
Min(a, b) == IF a <= b THEN a ELSE b

RECURSIVE SumQuantity(_)
SumQuantity(rows) ==
  IF rows = << >> THEN 0
  ELSE rows[1].row.Quantity + SumQuantity(Tail(rows))

\* Faulty variant: only the first entry of the list is compared.
InRestrictedListFirstOnly(t, list) == Len(list) > 0 /\ list[1] = t

\* ticker in st.session_state.restricted_list
InRestrictedList(t, list) == \E i \in 1..Len(list) : list[i] = t

\* CHECK 1
RegulatoryBlock(t, pre, list) == InRestrictedList(t, list) /\ ~pre

\* Faulty variant: the pre-borrow flag is read the wrong way round.
SettlementRiskFlagInverted(r, pre) == r = "JP" /\ pre

\* CHECK 2
SettlementRisk(r, pre) == r = "JP" /\ ~pre

\* inventory[inventory['Ticker'] == ticker]: a copy of the matching rows,
\* each with the index label it has in the inventory table.
RECURSIVE FilterFrom(_, _, _)
FilterFrom(inv, t, i) ==
  IF i > Len(inv) THEN << >>
  ELSE (IF inv[i].Ticker = t THEN << [index |-> i, row |-> inv[i]] >> ELSE << >>)
       \o FilterFrom(inv, t, i + 1)

\* Faulty variant: the ticker filter is forgotten, every row is selected.
AvailableRowsUnfiltered(inv, t) == [i \in 1..Len(inv) |-> [index |-> i, row |-> inv[i]]]

\* Faulty variant: the matching rows are walked last row first.
RECURSIVE ReverseRows(_)
ReverseRows(rows) ==
  IF rows = << >> THEN << >> ELSE Append(ReverseRows(Tail(rows)), rows[1])

AvailableRowsReversed(inv, t) == ReverseRows(FilterFrom(inv, t, 1))

AvailableRows(inv, t) == FilterFrom(inv, t, 1)

\* available_rows['Quantity'].sum()
TotalAvailable(rows) == SumQuantity(rows)

\* Faulty variant: an order for exactly the total is turned away.
InsufficientLiquidityOffByOne(total, q) == total <= q

\* CHECK 3
InsufficientLiquidity(total, q) == total < q

\* Faulty variant: the take is not clamped to what the lot holds.
TakeUnclamped(rowQty, remaining) == remaining

\* Faulty variant: the whole lot is taken whatever is still needed.
TakeWholeLot(rowQty, remaining) == rowQty

\* take = min(row['Quantity'], remaining_needed)
Take(rowQty, remaining) == Min(rowQty, remaining)

\* f"{row['Lender']} (TaxID: {row['TaxID']})"
SourceDescriptor(row) == row.Lender \o " (TaxID: " \o row.TaxID \o ")"

\* ", ".join(sources_used)
RECURSIVE JoinSources(_)
JoinSources(srcs) ==
  IF srcs = << >> THEN ""
  ELSE IF Len(srcs) = 1 THEN srcs[1]
  ELSE srcs[1] \o ", " \o JoinSources(Tail(srcs))

\* Faulty variant: only the first source is recorded as the lender.
LocateRecordFirstLender(id, t, q, srcs) ==
  [LocateID |-> id, Ticker |-> t, Qty |-> q,
   Lenders |-> IF srcs = << >> THEN "" ELSE srcs[1]]

\* The dict appended to the ledger.
LocateRecord(id, t, q, srcs) ==
  [LocateID |-> id, Ticker |-> t, Qty |-> q, Lenders |-> JoinSources(srcs)]

\* Faulty variant: the record is inserted at the head of the ledger.
LedgerPrepend(ledger, rec) == << rec >> \o ledger

\* st.session_state.audit_ledger.append(record)
LedgerAppend(ledger, rec) == Append(ledger, rec)

Reject204(t) ==
  [outcome |-> "REJECT", reason |-> << "REGULATORY BLOCK", t >>, code |-> "ERR-204-FAIL"]
RejectSettle ==
  [outcome |-> "REJECT", reason |-> << "SETTLEMENT RISK" >>, code |-> "ERR-SETTLE-JP"]
\* Faulty variant: the liquidity rejection carries a code outside the set.
RejectLiquidityUnknownCode(q, total) ==
  [outcome |-> "REJECT", reason |-> << "INSUFFICIENT LIQUIDITY", q, total >>,
   code |-> "ERR-LIQ-002"]

RejectLiquidity(q, total) ==
  [outcome |-> "REJECT", reason |-> << "INSUFFICIENT LIQUIDITY", q, total >>,
   code |-> "ERR-LIQ-001"]
PassResult(id, srcs) ==
  [outcome |-> "PASS", locate_id |-> id, source_data |-> srcs]

NoArgs == [ticker |-> "", quantity |-> 0, region |-> "", is_pre_borrow |-> FALSE]
NoLocals ==
  [available_rows |-> << >>, total_available |-> 0, remaining_needed |-> 0,
   sources_used |-> << >>, pos |-> 0, take |-> 0, cur |-> 0]
NoResult == [outcome |-> "NONE"]

\* ------------------------------------------------------------- Init
Init ==
  /\ inventory \in SeedInventories
  /\ restricted_list = SeedRestricted
  /\ audit_ledger = << >>
  /\ pc = [p \in Procs |-> "idle"]
  /\ args = [p \in Procs |-> NoArgs]
  /\ locals = [p \in Procs |-> NoLocals]
  /\ result = [p \in Procs |-> NoResult]
  /\ inv0 = [p \in Procs |-> inventory]
  /\ ledger0 = [p \in Procs |-> << >>]
  /\ seed = inventory
  /\ passes = 0

\* ------------------------------------------------------------- process_order
\* The caller enters process_order(ticker, quantity, region, is_pre_borrow).
Call(p, t, q, r, pre) ==
  /\ pc[p] = "idle"
  /\ Len(audit_ledger) < MaxLedger
  /\ pc' = [pc EXCEPT ![p] = "check1"]
  /\ args' = [args EXCEPT ![p] =
                [ticker |-> t, quantity |-> q, region |-> r, is_pre_borrow |-> pre]]
  /\ locals' = [locals EXCEPT ![p] = NoLocals]
  /\ result' = [result EXCEPT ![p] = NoResult]
  /\ inv0' = [inv0 EXCEPT ![p] = inventory]
  /\ ledger0' = [ledger0 EXCEPT ![p] = audit_ledger]
  /\ UNCHANGED << inventory, restricted_list, audit_ledger, seed, passes >>

\* Faulty variant: the settlement check is evaluated before the restriction check.
Check1SettleFirst(p) ==
  /\ pc[p] = "check1"
  /\ IF SettlementRisk(args[p].region, args[p].is_pre_borrow)
     THEN /\ result' = [result EXCEPT ![p] = RejectSettle]
          /\ pc' = [pc EXCEPT ![p] = "done"]
     ELSE IF RegulatoryBlock(args[p].ticker, args[p].is_pre_borrow, restricted_list)
     THEN /\ result' = [result EXCEPT ![p] = Reject204(args[p].ticker)]
          /\ pc' = [pc EXCEPT ![p] = "done"]
     ELSE /\ pc' = [pc EXCEPT ![p] = "check2"]
          /\ UNCHANGED result
  /\ UNCHANGED << inventory, restricted_list, audit_ledger, args, locals,
                  inv0, ledger0, seed, passes >>

\* CHECK 1: REGULATORY BLOCKS
Check1(p) ==
  /\ pc[p] = "check1"
  /\ IF RegulatoryBlock(args[p].ticker, args[p].is_pre_borrow, restricted_list)
     THEN /\ result' = [result EXCEPT ![p] = Reject204(args[p].ticker)]
          /\ pc' = [pc EXCEPT ![p] = "done"]
     ELSE /\ pc' = [pc EXCEPT ![p] = "check2"]
          /\ UNCHANGED result
  /\ UNCHANGED << inventory, restricted_list, audit_ledger, args, locals,
                  inv0, ledger0, seed, passes >>

\* CHECK 2: SETTLEMENT FRICTION
Check2(p) ==
  /\ pc[p] = "check2"
  /\ IF SettlementRisk(args[p].region, args[p].is_pre_borrow)
     THEN /\ result' = [result EXCEPT ![p] = RejectSettle]
          /\ pc' = [pc EXCEPT ![p] = "done"]
     ELSE /\ pc' = [pc EXCEPT ![p] = "check3"]
          /\ UNCHANGED result
  /\ UNCHANGED << inventory, restricted_list, audit_ledger, args, locals,
                  inv0, ledger0, seed, passes >>

\* Faulty variant: a liquidity rejection is written to the audit ledger too.
Check3LogsReject(p) ==
  /\ pc[p] = "check3"
  /\ LET rows == AvailableRows(inventory, args[p].ticker)
         total == TotalAvailable(rows)
     IN IF InsufficientLiquidity(total, args[p].quantity)
        THEN /\ result' = [result EXCEPT ![p] = RejectLiquidity(args[p].quantity, total)]
             /\ pc' = [pc EXCEPT ![p] = "done"]
             /\ locals' = [locals EXCEPT ![p].available_rows = rows,
                                         ![p].total_available = total]
             /\ audit_ledger' = LedgerAppend(audit_ledger,
                   LocateRecord("REJECTED", args[p].ticker, args[p].quantity, << >>))
        ELSE /\ locals' = [locals EXCEPT ![p].available_rows = rows,
                                         ![p].total_available = total,
                                         ![p].remaining_needed = args[p].quantity,
                                         ![p].sources_used = << >>,
                                         ![p].pos = 1]
             /\ pc' = [pc EXCEPT ![p] = "loop"]
             /\ UNCHANGED << result, audit_ledger >>
  /\ UNCHANGED << inventory, restricted_list, args,
                  inv0, ledger0, seed, passes >>

\* CHECK 3: INVENTORY AVAILABILITY, and on success the two assignments that
\* open CHECK 4 (remaining_needed = quantity; sources_used = []).
Check3(p) ==
  /\ pc[p] = "check3"
  /\ LET rows == AvailableRows(inventory, args[p].ticker)
         total == TotalAvailable(rows)
     IN IF InsufficientLiquidity(total, args[p].quantity)
        THEN /\ result' = [result EXCEPT ![p] = RejectLiquidity(args[p].quantity, total)]
             /\ pc' = [pc EXCEPT ![p] = "done"]
             /\ locals' = [locals EXCEPT ![p].available_rows = rows,
                                         ![p].total_available = total]
        ELSE /\ locals' = [locals EXCEPT ![p].available_rows = rows,
                                         ![p].total_available = total,
                                         ![p].remaining_needed = args[p].quantity,
                                         ![p].sources_used = << >>,
                                         ![p].pos = 1]
             /\ pc' = [pc EXCEPT ![p] = "loop"]
             /\ UNCHANGED result
  /\ UNCHANGED << inventory, restricted_list, audit_ledger, args,
                  inv0, ledger0, seed, passes >>

\* Head of the for loop: the loop ends when the rows are exhausted or
\* remaining_needed <= 0; otherwise take is computed from the copied row and
\* the lot's current quantity is read (the load half of "-= take").
LoopHead(p) ==
  /\ pc[p] = "loop"
  /\ LET l == locals[p]
     IN IF l.pos > Len(l.available_rows) \/ l.remaining_needed <= 0
        THEN /\ pc' = [pc EXCEPT ![p] = "artifact"]
             /\ UNCHANGED locals
        ELSE /\ locals' = [locals EXCEPT
                  ![p].take = Take(l.available_rows[l.pos].row.Quantity, l.remaining_needed),
                  ![p].cur = inventory[l.available_rows[l.pos].index].Quantity]
             /\ pc' = [pc EXCEPT ![p] = "store"]
  /\ UNCHANGED << inventory, restricted_list, audit_ledger, args, result,
                  inv0, ledger0, seed, passes >>

\* Faulty variant: the lot is addressed by its position in available_rows
\* instead of by its index label in the inventory.
StoreByPosition(p) ==
  /\ pc[p] = "store"
  /\ LET l == locals[p]
         ar == l.available_rows[l.pos]
     IN /\ inventory' = [inventory EXCEPT ![l.pos].Quantity = l.cur - l.take]
        /\ locals' = [locals EXCEPT
             ![p].remaining_needed = l.remaining_needed - l.take,
             ![p].sources_used = Append(l.sources_used, SourceDescriptor(ar.row)),
             ![p].pos = l.pos + 1]
  /\ pc' = [pc EXCEPT ![p] = "loop"]
  /\ UNCHANGED << restricted_list, audit_ledger, args, result,
                  inv0, ledger0, seed, passes >>

\* The store half of "inventory.at[index, 'Quantity'] -= take", then
\* remaining_needed -= take and sources_used.append(...).
Store(p) ==
  /\ pc[p] = "store"
  /\ LET l == locals[p]
         ar == l.available_rows[l.pos]
     IN /\ inventory' = [inventory EXCEPT ![ar.index].Quantity = l.cur - l.take]
        /\ locals' = [locals EXCEPT
             ![p].remaining_needed = l.remaining_needed - l.take,
             ![p].sources_used = Append(l.sources_used, SourceDescriptor(ar.row)),
             ![p].pos = l.pos + 1]
  /\ pc' = [pc EXCEPT ![p] = "loop"]
  /\ UNCHANGED << restricted_list, audit_ledger, args, result,
                  inv0, ledger0, seed, passes >>

\* GENERATE COMPLIANCE ARTIFACT: uuid4, the ledger append, and the PASS
\* return.
Artifact(p, id) ==
  /\ pc[p] = "artifact"
  /\ audit_ledger' = LedgerAppend(audit_ledger,
        LocateRecord(id, args[p].ticker, args[p].quantity, locals[p].sources_used))
  /\ result' = [result EXCEPT ![p] = PassResult(id, locals[p].sources_used)]
  /\ passes' = passes + 1
  /\ pc' = [pc EXCEPT ![p] = "done"]
  /\ UNCHANGED << inventory, restricted_list, args, locals, inv0, ledger0, seed >>

\* The caller has rendered the result and is ready to submit again.
Return(p) ==
  /\ pc[p] = "done"
  /\ pc' = [pc EXCEPT ![p] = "idle"]
  /\ args' = [args EXCEPT ![p] = NoArgs]
  /\ locals' = [locals EXCEPT ![p] = NoLocals]
  /\ result' = [result EXCEPT ![p] = NoResult]
  /\ inv0' = [inv0 EXCEPT ![p] = inventory]
  /\ ledger0' = [ledger0 EXCEPT ![p] = audit_ledger]
  /\ UNCHANGED << inventory, restricted_list, audit_ledger, seed, passes >>

\* ------------------------------------------------------------- specifications
\* One caller: every call runs to completion before the next begins.
Next ==
  \/ \E t \in Tickers, q \in Quantities, r \in Regions, pre \in BOOLEAN :
        Call(1, t, q, r, pre)
  \/ Check1(1)
  \/ Check2(1)
  \/ Check3(1)
  \/ LoopHead(1)
  \/ Store(1)
  \/ \E id \in UUIDs : Artifact(1, id)
  \/ Return(1)

Spec == Init /\ [][Next]_vars

\* NProcs callers, one call each, statements interleaved in any order.
NextConc ==
  \E p \in Procs :
    \/ \E t \in Tickers, q \in Quantities, r \in Regions, pre \in BOOLEAN :
          Call(p, t, q, r, pre)
    \/ Check1(p)
    \/ Check2(p)
    \/ Check3(p)
    \/ LoopHead(p)
    \/ Store(p)
    \/ \E id \in UUIDs : Artifact(p, id)

SpecConc == Init /\ [][NextConc]_vars

\* ------------------------------------------------------------- properties
\* Vocabulary of the properties, written from the state alone.
Listed(t) == t \in { restricted_list[i] : i \in DOMAIN restricted_list }

RECURSIVE LotTotalUpTo(_, _, _)
LotTotalUpTo(inv, t, n) ==
  IF n = 0 THEN 0
  ELSE LotTotalUpTo(inv, t, n - 1) + (IF inv[n].Ticker = t THEN inv[n].Quantity ELSE 0)

\* Summed quantity of the lots of ticker t in table inv.
LotTotal(inv, t) == LotTotalUpTo(inv, t, Len(inv))

Done(p) == pc[p] = "done"
Rejected(p) == Done(p) /\ result[p].outcome = "REJECT"
RejectedWith(p, code) == Rejected(p) /\ result[p].code = code
Passed(p) == Done(p) /\ result[p].outcome = "PASS"

FailsRestriction(p) == Listed(args[p].ticker) /\ ~args[p].is_pre_borrow
FailsSettlement(p) == args[p].region = "JP" /\ ~args[p].is_pre_borrow
FailsLiquidity(p) == LotTotal(inv0[p], args[p].ticker) < args[p].quantity

NoLotNegative == \A i \in 1..Len(inventory) : inventory[i].Quantity >= 0

IsPrefix(s, t) == Len(s) <= Len(t) /\ \A i \in 1..Len(s) : s[i] = t[i]

\* C1: a call that returns REJECT (any code) leaves every lot quantity and
\* the whole audit ledger exactly as they were when the call began.
C1_RejectHasNoSideEffects ==
  \A p \in Procs :
    Rejected(p) => inventory = inv0[p] /\ audit_ledger = ledger0[p]

\* C1 witness: a liquidity rejection of an order for a security that has
\* stock, returned while the ledger already holds a record.
C1_Witness ==
  /\ RejectedWith(1, "ERR-LIQ-001")
  /\ LotTotal(inventory, args[1].ticker) > 0
  /\ Len(audit_ledger) >= 1

\* C2: with calls run one after another, no lot quantity is ever negative,
\* in any state, the states inside the allocation loop included.
C2_InventoryNonNegative == NoLotNegative

\* C2 witness: inside the allocation loop, one lot already drained and part
\* of the order still to be taken from the next lot.
C2_Witness ==
  /\ pc[1] = "loop"
  /\ locals[1].pos = 2
  /\ locals[1].remaining_needed > 0
  /\ inventory # inv0[1]

\* C3: when every caller concurrently orders the same quantity Q of the same
\* security, none of the orders is stopped by the restriction or settlement
\* check, and the security starts with exactly NProcs * Q, then no lot is
\* ever negative and, once all have returned, all returned PASS and the
\* ledger holds exactly NProcs records.
C3_ConcurrentOrdersSafe ==
  ( /\ \A p \in Procs : pc[p] # "idle"
    /\ \A p, q \in Procs : /\ args[p].ticker = args[q].ticker
                           /\ args[p].quantity = args[q].quantity
    /\ \A p \in Procs : ~FailsRestriction(p) /\ ~FailsSettlement(p)
    /\ LotTotal(seed, args[1].ticker) = NProcs * args[1].quantity )
  => /\ NoLotNegative
     /\ (\A p \in Procs : Done(p)) =>
           /\ \A p \in Procs : Passed(p)
           /\ Len(audit_ledger) = NProcs

\* C4: after a PASS the lots of the ordered security have lost exactly the
\* requested quantity in total, each lot between 0 and what it held.
C4_AllocationConservation ==
  \A p \in Procs :
    Passed(p) =>
      /\ LotTotal(inv0[p], args[p].ticker) - LotTotal(inventory, args[p].ticker)
           = args[p].quantity
      /\ \A i \in 1..Len(inventory) :
           inventory[i].Ticker = args[p].ticker =>
             /\ inv0[p][i].Quantity - inventory[i].Quantity >= 0
             /\ inv0[p][i].Quantity - inventory[i].Quantity <= inv0[p][i].Quantity

\* C4 witness: a PASS whose quantity was drawn from two lots.
C4_Witness ==
  /\ Passed(1)
  /\ Cardinality({ i \in 1..Len(inventory) :
                     inv0[1][i].Quantity > inventory[i].Quantity }) = 2

\* C5: an order on a listed security without pre-borrow is rejected with
\* ERR-204-FAIL, whatever its region, quantity and the inventory.
C5_RestrictionCheck ==
  \A p \in Procs :
    Done(p) /\ FailsRestriction(p) => RejectedWith(p, "ERR-204-FAIL")

\* C5 witness: a listed security with enough stock, ordered from JP without
\* pre-borrow, has been decided.
C5_Witness ==
  /\ Done(1)
  /\ FailsRestriction(1)
  /\ args[1].region = "JP"
  /\ ~FailsLiquidity(1)

\* C6 as stated: every JP order without pre-borrow is rejected with
\* ERR-SETTLE-JP, whether or not the security is listed.
C6_SettlementRegardlessOfRestriction ==
  \A p \in Procs :
    Done(p) /\ FailsSettlement(p) => RejectedWith(p, "ERR-SETTLE-JP")

\* C6 amended: a JP order without pre-borrow is rejected with ERR-SETTLE-JP
\* when the security is not listed, whatever the available quantity, and with
\* ERR-204-FAIL when the security is listed.
C6_SettlementCheck ==
  \A p \in Procs :
    Done(p) /\ FailsSettlement(p) =>
      IF Listed(args[p].ticker)
      THEN RejectedWith(p, "ERR-204-FAIL")
      ELSE RejectedWith(p, "ERR-SETTLE-JP")

\* C6 witness: an unlisted security with enough stock, ordered from JP
\* without pre-borrow, has been decided.
C6_Witness ==
  /\ Done(1)
  /\ FailsSettlement(1)
  /\ ~Listed(args[1].ticker)
  /\ ~FailsLiquidity(1)

\* C7 as stated: every order for more than the security's summed quantity is
\* rejected with ERR-LIQ-001 and leaves every lot unchanged.
C7_LiquidityAlwaysLiq001 ==
  \A p \in Procs :
    Done(p) /\ FailsLiquidity(p) =>
      RejectedWith(p, "ERR-LIQ-001") /\ inventory = inv0[p]

\* C7 amended: every order for more than the security's summed quantity is
\* rejected and leaves every lot unchanged; its code is ERR-LIQ-001 when the
\* order is stopped by neither the restriction nor the settlement check.
C7_LiquidityCheck ==
  \A p \in Procs :
    Done(p) /\ FailsLiquidity(p) =>
      /\ Rejected(p)
      /\ inventory = inv0[p]
      /\ (~FailsRestriction(p) /\ ~FailsSettlement(p)) => RejectedWith(p, "ERR-LIQ-001")

\* C7 witness: an order for more than a stocked security holds, stopped by
\* neither earlier check, has been decided.
C7_Witness ==
  /\ Done(1)
  /\ FailsLiquidity(1)
  /\ ~FailsRestriction(1) /\ ~FailsSettlement(1)
  /\ LotTotal(inv0[1], args[1].ticker) > 0

\* C8: the reject code is that of the first failing check in the order
\* restriction, settlement, liquidity.
C8_RuleOrder ==
  \A p \in Procs :
    Done(p) =>
      /\ FailsRestriction(p) => RejectedWith(p, "ERR-204-FAIL")
      /\ (~FailsRestriction(p) /\ FailsSettlement(p)) => RejectedWith(p, "ERR-SETTLE-JP")
      /\ (~FailsRestriction(p) /\ ~FailsSettlement(p) /\ FailsLiquidity(p))
           => RejectedWith(p, "ERR-LIQ-001")

\* C8 witness: an order that fails all three checks has been decided.
C8_Witness ==
  /\ Done(1)
  /\ FailsRestriction(1) /\ FailsSettlement(1) /\ FailsLiquidity(1)

\* The first n descriptors of src separated by ", ", built from the left.
RECURSIVE JoinedUpTo(_, _)
JoinedUpTo(src, n) ==
  IF n = 0 THEN ""
  ELSE IF n = 1 THEN src[1]
  ELSE JoinedUpTo(src, n - 1) \o ", " \o src[n]

\* C9: a PASS has appended exactly one record, carrying the response's
\* identifier, the order's security and quantity and the response's sources
\* joined in order; and the ledger is as long as the number of PASS results.
C9_OneRecordPerPass ==
  /\ Len(audit_ledger) = passes
  /\ \A p \in Procs :
       Passed(p) =>
         /\ Len(audit_ledger) = Len(ledger0[p]) + 1
         /\ SubSeq(audit_ledger, 1, Len(ledger0[p])) = ledger0[p]
         /\ LET rec == audit_ledger[Len(audit_ledger)]
                src == result[p].source_data
            IN /\ rec.LocateID = result[p].locate_id
               /\ rec.Ticker = args[p].ticker
               /\ rec.Qty = args[p].quantity
               /\ rec.Lenders = JoinedUpTo(src, Len(src))

\* C9 witness: a second PASS, drawn from two lots.
C9_Witness ==
  /\ Passed(1)
  /\ Len(result[1].source_data) = 2
  /\ Len(ledger0[1]) = 1

\* C10: every step leaves the ledger it found as a prefix of the ledger it
\* leaves behind.
C10_LedgerAppendOnly == [][IsPrefix(audit_ledger, audit_ledger')]_vars

\* C10 witness: the ledger holds two different records.
C10_Witness ==
  /\ Len(audit_ledger) = 2
  /\ audit_ledger[1] # audit_ledger[2]

\* Quantity granted so far for ticker t: the Qty of its ledger records.
RECURSIVE LedgerQtyUpTo(_, _, _)
LedgerQtyUpTo(ledger, t, n) ==
  IF n = 0 THEN 0
  ELSE LedgerQtyUpTo(ledger, t, n - 1)
       + (IF ledger[n].Ticker = t THEN ledger[n].Qty ELSE 0)

LedgerQty(ledger, t) == LedgerQtyUpTo(ledger, t, Len(ledger))

\* Caller p has run its liquidity check and has not yet appended its record.
InCriticalSection(p) == pc[p] \in { "loop", "store", "artifact" }

\* C11: no two calls for the same security are at once between their
\* liquidity check and their ledger append, and the quantity granted for a
\* security never exceeds what it started with.
C11_MutualExclusionPerSecurity ==
  /\ \A p, q \in Procs :
       (p # q /\ InCriticalSection(p) /\ InCriticalSection(q))
         => args[p].ticker # args[q].ticker
  /\ \A t \in Tickers : LedgerQty(audit_ledger, t) <= LotTotal(seed, t)

\* C11, second half alone: the quantity granted for a security never exceeds
\* what it started with.
C11_NoOverAllocation ==
  \A t \in Tickers : LedgerQty(audit_ledger, t) <= LotTotal(seed, t)

\* C13: a decrement of a lot by more than it holds is refused: the lot keeps
\* its quantity and the call ends in a fault, not in a store.
C13_DefensiveDecrement ==
  [][\A p \in Procs :
       (pc[p] = "store" /\ pc'[p] # "store" /\ locals[p].take > locals[p].cur)
         => (inventory' = inventory /\ pc'[p] = "fault")]_vars

\* "lender (tax id)" of a lot, as the response shows it.
Descriptor(lot) == lot.Lender \o " (TaxID: " \o lot.TaxID \o ")"

\* What is still needed of an order for q of ticker t when the walk reaches
\* row i of table inv: q less everything the earlier lots of t held.
NeedAt(inv, t, q, i) == q - LotTotalUpTo(inv, t, i - 1)

\* What caller p's call has taken from row i so far.
Taken(p, i) == inv0[p][i].Quantity - inventory[i].Quantity

\* Descriptors, in row order, of the rows among the first n that satisfy
\* keep.
RECURSIVE DescriptorsUpTo(_, _, _)
DescriptorsUpTo(inv, keep(_), n) ==
  IF n = 0 THEN << >>
  ELSE DescriptorsUpTo(inv, keep, n - 1)
       \o (IF keep(n) THEN << Descriptor(inv[n]) >> ELSE << >>)

\* C14: on PASS the lots of the security are walked in row order, each
\* giving min(its quantity, what is still needed) until nothing is needed;
\* so the lots before the last one drawn from are at 0, the lots after it
\* are untouched, and the sources are the walked lots in row order.
C14_GreedyFirstFit ==
  \A p \in Procs :
    Passed(p) =>
      LET t == args[p].ticker
          q == args[p].quantity
          Lots == { i \in 1..Len(inventory) : inventory[i].Ticker = t }
          Drawn == { i \in Lots : Taken(p, i) > 0 }
          Walked(i) == inv0[p][i].Ticker = t /\ NeedAt(inv0[p], t, q, i) > 0
      IN /\ \A i \in Lots :
              Taken(p, i) = (IF NeedAt(inv0[p], t, q, i) <= 0 THEN 0
                             ELSE IF inv0[p][i].Quantity <= NeedAt(inv0[p], t, q, i)
                                  THEN inv0[p][i].Quantity
                                  ELSE NeedAt(inv0[p], t, q, i))
         /\ \A last \in Drawn :
              (\A j \in Drawn : j <= last) =>
                 \A i \in Lots : /\ i < last => inventory[i].Quantity = 0
                                 /\ i > last => inventory[i].Quantity = inv0[p][i].Quantity
         /\ result[p].source_data = DescriptorsUpTo(inv0[p], Walked, Len(inv0[p]))

\* C14 witness: a PASS that drained the first lot of the security and took
\* part of its second lot.
C14_Witness ==
  /\ Passed(1)
  /\ \E i, j \in 1..Len(inventory) :
       /\ i < j
       /\ inventory[i].Ticker = args[1].ticker /\ inventory[j].Ticker = args[1].ticker
       /\ inv0[1][i].Quantity > 0 /\ inventory[i].Quantity = 0
       /\ Taken(1, j) > 0 /\ inventory[j].Quantity > 0

\* C15: an order is passed exactly when it fails none of the three checks;
\* an order for exactly the total leaves every lot of the security at 0.
C15_DecisionCompleteness ==
  \A p \in Procs :
    Done(p) =>
      /\ Passed(p) <=> (~FailsRestriction(p) /\ ~FailsSettlement(p) /\ ~FailsLiquidity(p))
      /\ (Passed(p) /\ args[p].quantity = LotTotal(inv0[p], args[p].ticker)) =>
            \A i \in 1..Len(inventory) :
               inventory[i].Ticker = args[p].ticker => inventory[i].Quantity = 0

\* C15 witness: a listed security ordered from JP with pre-borrow, for
\* exactly its total, has passed.
C15_Witness ==
  /\ Passed(1)
  /\ Listed(args[1].ticker) /\ args[1].region = "JP" /\ args[1].is_pre_borrow
  /\ args[1].quantity = LotTotal(inv0[1], args[1].ticker)

Quiescent == \A p \in Procs : pc[p] \in { "idle", "done" }

\* C17: between calls, for every security, what its lots hold now plus what
\* the ledger records as granted equals what its lots held at construction.
C17_LedgerAccountsForInventory ==
  Quiescent =>
    \A t \in Tickers :
      LotTotal(inventory, t) + LedgerQty(audit_ledger, t) = LotTotal(seed, t)

\* C17 witness: between calls, with two grants of different quantities in
\* the ledger.
C17_Witness ==
  /\ Quiescent
  /\ Len(audit_ledger) = 2
  /\ audit_ledger[1].Qty # audit_ledger[2].Qty

\* C18: a call changes only the quantities of the lots of its own security
\* and, on PASS, the end of the ledger.  The lots, their ticker, lender, tax
\* id and region, the quantities of other securities and the restricted list
\* stay as they were; a lot at 0 stays in the table.
C18_Frame ==
  /\ restricted_list = SeedRestricted
  /\ Len(inventory) = Len(seed)
  /\ \A i \in 1..Len(seed) :
       inventory[i] = [seed[i] EXCEPT !.Quantity = inventory[i].Quantity]
  /\ \A p \in Procs :
       pc[p] # "idle" =>
         /\ \A i \in 1..Len(inventory) :
              inventory[i].Ticker # args[p].ticker
                => inventory[i].Quantity = inv0[p][i].Quantity
         /\ IsPrefix(ledger0[p], audit_ledger)
         /\ Len(audit_ledger) = Len(ledger0[p]) + (IF Passed(p) THEN 1 ELSE 0)

\* C18 witness: a PASS that drew on the security's second lot and emptied
\* it, while another security still holds stock.
C18_Witness ==
  /\ Passed(1)
  /\ \E i, j, k \in 1..Len(inventory) :
       /\ i < j /\ j < k
       /\ inventory[k].Ticker = args[1].ticker
       /\ inv0[1][k].Quantity > 0 /\ inventory[k].Quantity = 0
       /\ inventory[j].Ticker # args[1].ticker /\ inventory[j].Quantity > 0

RejectCodes == { "ERR-204-FAIL", "ERR-SETTLE-JP", "ERR-LIQ-001" }

\* C19: every call ends, and ends with PASS or with REJECT and one of the
\* three codes: a call in progress always has a next step, and a finished
\* call holds one of the two result shapes.
C19_ClosedOutcomeSet ==
  \A p \in Procs :
    /\ pc[p] \in { "idle", "check1", "check2", "check3", "loop", "store",
                   "artifact", "done" }
    /\ (p = 1 /\ pc[p] \notin { "idle", "done" }) => ENABLED Next
    /\ Done(p) =>
         \/ /\ result[p].outcome = "PASS"
            /\ DOMAIN result[p] = { "outcome", "locate_id", "source_data" }
         \/ /\ result[p].outcome = "REJECT"
            /\ DOMAIN result[p] = { "outcome", "reason", "code" }
            /\ result[p].code \in RejectCodes

\* C19 witness: an order for a security that is in no list and has no lot
\* has been decided.
C19_Witness ==
  /\ Done(1)
  /\ ~Listed(args[1].ticker)
  /\ \A i \in 1..Len(inventory) : inventory[i].Ticker # args[1].ticker

====
